---- MODULE Spec2Model ----
(***************************************************************************)
(* The video server of walter8729/videowebview: the in-memory tree cache,  *)
(* the asynchronous directory scan that fills it, the file watcher with    *)
(* its debounce timer and the two JSON routes; and the page in the browser *)
(* that loads the tree from it, polls while it is not ready and asks for   *)
(* a re-scan.                                                              *)
(*                                                                         *)
(* A file name is a sequence of one-character strings, a path is a         *)
(* sequence of names below ROOT_DIR.  An optional JavaScript value (a      *)
(* variable that is null or holds a value) is the empty sequence for null  *)
(* and the one-element sequence <<v>> for the value v, so that the empty   *)
(* array [] and null stay different.                                       *)
(***************************************************************************)
EXTENDS Integers, Sequences, FiniteSets, TLC

\* ---------------------------------------------------------------- bounds

\* The longest step of the clock, in milliseconds.
MsPerTick == 1000
\* Entries of the scanners' disk that may be absent at once.
MaxAbsent == 1

\* Lookups of the scanners' disk that may fail at once.
MaxFailures == 1

\* Timeouts that may be pending at once (the timer list of the event loop).
MaxTimers == 2
\* The events of a burst are counted up to this.
MaxBurst == 2

\* ------------------------------------------------------ program constants

DEBOUNCE_DELAY_MS == 2000

null == <<>>

Some(v) == <<v>>

\* ------------------------------------------------------------- characters

Uppers == <<"A","B","C","D","E","F","G","H","I","J","K","L","M",
            "N","O","P","Q","R","S","T","U","V","W","X","Y","Z">>

Lowers == <<"a","b","c","d","e","f","g","h","i","j","k","l","m",
            "n","o","p","q","r","s","t","u","v","w","x","y","z">>

\* The first index of c in s, 0 when c does not occur.
IndexOf(s, c) ==
    IF \E i \in 1..Len(s) : s[i] = c
    THEN CHOOSE i \in 1..Len(s) : s[i] = c /\ \A j \in 1..(i - 1) : s[j] # c
    ELSE 0

\* The last index of c in s, 0 when c does not occur.
LastIndexOf(s, c) ==
    IF \E i \in 1..Len(s) : s[i] = c
    THEN CHOOSE i \in 1..Len(s) : s[i] = c /\ \A j \in (i + 1)..Len(s) : s[j] # c
    ELSE 0

IsUpper(c) == IndexOf(Uppers, c) # 0

LowerChar(c) == IF IsUpper(c) THEN Lowers[IndexOf(Uppers, c)] ELSE c

\* String.prototype.toLowerCase
toLowerCase(s) == [i \in 1..Len(s) |-> LowerChar(s[i])]

\* String.prototype.startsWith, for a one-character prefix
startsWith(s, c) == Len(s) > 0 /\ s[1] = c

\* path.basename of a path that does not end with a separator
basename(s) == SubSeq(s, LastIndexOf(s, "/") + 1, Len(s))

\* path.extname: from the last '.' of the base name to its end; empty when there
\* is no '.', when the only '.' is the first character, and for "..".
extname(s) ==
    LET b == basename(s)
        d == LastIndexOf(b, ".")
    IN  IF d = 0 \/ d = 1 \/ b = <<".", ".">> THEN <<>> ELSE SubSeq(b, d, Len(b))

VIDEO_EXTENSIONS ==
    << <<".","m","p","4">>, <<".","m","k","v">>, <<".","w","e","b","m">>,
       <<".","a","v","i">>, <<".","m","o","v">> >>

\* Array.prototype.includes
includes(arr, x) == \E i \in 1..Len(arr) : arr[i] = x

NODE_MODULES == <<"n","o","d","e","_","m","o","d","u","l","e","s">>

WEB_VIEW == <<"w","e","b","_","v","i","e","w">>

\* A variant of the rule that skips hidden entries only.
ExcludedHidden(file) == startsWith(file, ".")

\* The scanner's exclusion rule (the negation of the filter's predicate).
Excluded(file) == startsWith(file, ".") \/ file = NODE_MODULES \/ file = WEB_VIEW

\* ---------------------------------------------------------- localeCompare

\* The collation order of the characters used here: punctuation, digits, letters.
Collation == <<"_", ".", "/", "\\", "0","1","2","3","4","5","6","7","8","9">> \o Lowers

\* The primary weight of a character: its letter whatever its case.
Primary(c) == IndexOf(Collation, LowerChar(c))

Min(a, b) == IF a < b THEN a ELSE b

\* String.prototype.localeCompare: -1, 0 or 1.  The primary weights decide,
\* compared from the left, a proper prefix first; between strings that differ
\* only in case the first difference decides, lower case first.
localeCompare(a, b) ==
    LET n == Min(Len(a), Len(b))
        pd == {i \in 1..n : Primary(a[i]) # Primary(b[i])}
        cd == {i \in 1..n : a[i] # b[i]}
        first(S) == CHOOSE i \in S : \A j \in S : i <= j
    IN  IF pd # {}
        THEN IF Primary(a[first(pd)]) < Primary(b[first(pd)]) THEN -1 ELSE 1
        ELSE IF Len(a) # Len(b)
        THEN IF Len(a) < Len(b) THEN -1 ELSE 1
        ELSE IF cd # {}
        THEN IF IsUpper(b[first(cd)]) THEN -1 ELSE 1
        ELSE 0

\* ------------------------------------------------------------------ nodes

\* path.relative(ROOT_DIR, filePath): the names below the root joined by '/'.
RECURSIVE JoinPath(_)
JoinPath(p) ==
    IF Len(p) = 0 THEN <<>>
    ELSE IF Len(p) = 1 THEN p[1]
    ELSE p[1] \o <<"/">> \o JoinPath(Tail(p))

\* .replace(/\\/g, '/')
ReplaceBackslash(s) == [i \in 1..Len(s) |-> IF s[i] = "\\" THEN "/" ELSE s[i]]

relativePath(p) == ReplaceBackslash(JoinPath(p))

DirectoryNode(file, p, kids) ==
    [name |-> file, type |-> "directory", relativePath |-> relativePath(p),
     children |-> kids]

FileNode(file, p, sz) ==
    [name |-> file, type |-> "file", relativePath |-> relativePath(p), size |-> sz]

\* A variant of the comparator that compares the names whatever the types.
CompareNames(a, b) == localeCompare(a.name, b.name)

\* The comparator of the scanner's sort: negative when a goes before b.
CompareNodes(a, b) ==
    IF a.type = b.type THEN localeCompare(a.name, b.name)
    ELSE IF a.type = "directory" THEN -1 ELSE 1

\* Insert x into the sorted sequence s, after the elements it does not precede.
RECURSIVE InsertNode(_, _)
InsertNode(s, x) ==
    IF Len(s) = 0 THEN <<x>>
    ELSE IF CompareNodes(x, s[Len(s)]) < 0
    THEN Append(InsertNode(SubSeq(s, 1, Len(s) - 1), x), s[Len(s)])
    ELSE Append(s, x)

\* Array.prototype.sort with CompareNodes (a stable sort).
RECURSIVE SortNodes(_)
SortNodes(s) ==
    IF Len(s) = 0 THEN <<>>
    ELSE InsertNode(SortNodes(SubSeq(s, 1, Len(s) - 1)), s[Len(s)])

\* results.filter(Boolean) on a sequence of optional nodes
RECURSIVE FilterBoolean(_)
FilterBoolean(s) ==
    IF Len(s) = 0 THEN <<>>
    ELSE (IF s[1] = null THEN <<>> ELSE <<s[1][1]>>) \o FilterBoolean(Tail(s))

\* A count that stops at the first level: the file nodes of the sequence.
countFilesShallow(tree) ==
    Cardinality({i \in DOMAIN tree : tree[i].type = "file"})

\* countFiles: the file nodes of a tree, at all depths.
RECURSIVE countFiles(_)
countFiles(tree) ==
    IF Len(tree) = 0 THEN 0
    ELSE (IF tree[1].type = "file" THEN 1
          ELSE IF tree[1].type = "directory" THEN countFiles(tree[1].children)
          ELSE 0) + countFiles(Tail(tree))

\* ------------------------------------------------------------- filesystem

\* The entries the directory below ROOT_DIR may hold: a video file, and a
\* directory with one video file whose extension is in upper case.
A_MP4 == <<"a", ".", "m", "p", "4">>

D == <<"d">>

C_MKV == <<"c", ".", "M", "K", "V">>

UniversePaths == {<<A_MP4>>, <<D>>, <<D, C_MKV>>}

IsDirectoryPath(p) == p = <<D>>

SizeOf(p) == IF p = <<A_MP4>> THEN 7 ELSE 9

\* The names a directory may hold, in the order readdir reports them.
Listing(dir) ==
    IF dir = <<>> THEN <<A_MP4, D>>
    ELSE IF dir = <<D>> THEN <<C_MKV>>
    ELSE <<>>

Dirs == {<<>>} \cup {p \in UniversePaths : IsDirectoryPath(p)}

Parent(p) == SubSeq(p, 1, Len(p) - 1)

Last(p) == p[Len(p)]

\* A state of the filesystem: the entries present below ROOT_DIR.
FsStates == SUBSET UniversePaths

\* An entry is reachable when it and the directories above it are present.
Exists(f, p) == \A k \in 1..Len(p) : SubSeq(p, 1, k) \in f

\* fs.promises.readdir(dir): the names of the directory; null stands for the
\* rejection: the directory is missing or is no directory, or err, any other
\* failure (ROOT_DIR itself has disappeared, EACCES, EIO).
Readdir(f, dir, err) ==
    IF err \/ ~Exists(f, dir) \/ (dir # <<>> /\ ~IsDirectoryPath(dir)) THEN null
    ELSE Some(SelectSeq(Listing(dir), LAMBDA n : Append(dir, n) \in f))

\* fs.promises.stat(filePath): null stands for the rejection.
Stat(f, p, err) ==
    IF err \/ ~Exists(f, p) THEN null
    ELSE Some([isDirectory |-> IsDirectoryPath(p), size |-> SizeOf(p)])

\* ------------------------------------------------------------------ state

VARIABLES
    cachedTree,     \* null, or Some(tree): the tree of the last successful scan
    isScanRunning,  \* the flag refreshCache tests and sets
    debounceTimer,  \* null, or Some(id): the handle the watcher keeps
    timers,         \* the pending timeouts of the event loop: [id, due]
    scans,          \* the executions of scanDirectoryAsync(ROOT_DIR) in flight
    pc,             \* the app.listen callback: "listen", "await", "done"
    watcher,        \* "none", "active" (fs.watch subscribed) or "failed"
    fs,             \* the directory tree on disk
    response,       \* what the last step sent to a client, else null
    refreshed,      \* how the last step's refreshCache() call went, else null
    concluded,      \* how the scan the last step concluded ended, else null
    event,          \* the change event the last step's callback got, else null
    sinceEvent,     \* history: ms since the last qualifying change event
    burst,          \* history: the qualifying events of the last burst, counted
    owed,           \* history: bursts begun minus calls the watcher made
    returned,       \* history: null, or Some(tree) the last scan to return gave
    stale,          \* history: a scan has thrown since the last one returned
    disk,           \* the directory tree a scanner is run on by itself, else null
    asyncTree,      \* null, or Some(tree) scanDirectoryAsync(ROOT_DIR) gave on disk
    syncTree,       \* null, or Some(tree) scanDirectory(ROOT_DIR) gave on disk
    loaded,         \* the page: DOMContentLoaded has been dispatched
    treeContainer,  \* the page: what the element file-tree shows
    btnDisabled,    \* the page: the disabled property of the refresh button
    http,           \* the page: its fetch() calls that have not settled
    clientTimers    \* the page: its pending timeouts, [id, delay, callback]

vars == <<cachedTree, isScanRunning, debounceTimer, timers, scans, pc, watcher,
          fs, response, refreshed, concluded, event, sinceEvent, burst, owed,
          returned, stale, disk, asyncTree, syncTree, loaded, treeContainer,
          btnDisabled, http, clientTimers>>

\* The variables of the scanners run by themselves.
ScanVars == <<disk, asyncTree, syncTree>>

\* The variables of the server.
ServerVars == <<cachedTree, isScanRunning, debounceTimer, timers, scans, pc,
                watcher, fs, response, refreshed, concluded, event, sinceEvent,
                burst, owed, returned, stale>>

\* The variables of the page in the browser.
ClientVars == <<loaded, treeContainer, btnDisabled, http, clientTimers>>

\* The variables that say what the last step did.
Outputs == <<response, refreshed, concluded>>

\* The history variables of the watcher.
WatchHistory == <<sinceEvent, burst, owed>>

\* The history variables of the scans.
ScanHistory == <<returned, stale>>

\* ------------------------------------------------------- scanDirectoryAsync

\* The state of one promise of results[]: the stat is pending, the entry is a
\* directory whose scan is pending, or the promise is resolved to val.
NoSlot == [st |-> "none"]

StatPending == [st |-> "stat"]

ScanPending == [st |-> "scan"]

Done(v) == [st |-> "done", val |-> v]

\* One execution of scanDirectoryAsync(ROOT_DIR) with its recursive calls:
\* readdir: the directories whose readdir is pending; list[dir]: the filtered
\* names of a directory waiting in Promise.all; slot[p]: the promise of entry p;
\* result: null until the call on ROOT_DIR returns; awaited: the app.listen
\* callback waits for this scan; rootFailed: the readdir of ROOT_DIR rejected;
\* before: cachedTree when refreshCache() was called.
NewScan(aw) ==
    [readdir |-> {<<>>},
     list |-> [d \in Dirs |-> null],
     slot |-> [p \in UniversePaths |-> NoSlot],
     result |-> null,
     awaited |-> aw,
     rootFailed |-> FALSE,
     before |-> cachedTree]

\* A variant that keeps a directory whose scan returned no children.
DirectoryResultUnpruned(p, children) == Some(DirectoryNode(Last(p), p, children))

\* The value of a directory entry's promise once its scan returned children.
DirectoryResult(p, children) ==
    IF Len(children) > 0 THEN Some(DirectoryNode(Last(p), p, children)) ELSE null

\* A variant that leaves the size of the file out of its node.
FileResultSizeless(p, st) ==
    IF includes(VIDEO_EXTENSIONS, toLowerCase(extname(Last(p))))
    THEN Some(FileNode(Last(p), p, 0))
    ELSE null

\* A variant that compares the extension as it is written.
FileResultCaseSensitive(p, st) ==
    IF includes(VIDEO_EXTENSIONS, extname(Last(p)))
    THEN Some(FileNode(Last(p), p, st.size))
    ELSE null

\* The value of a file entry's promise.
FileResult(p, st) ==
    IF includes(VIDEO_EXTENSIONS, toLowerCase(extname(Last(p))))
    THEN Some(FileNode(Last(p), p, st.size))
    ELSE null

\* results.filter(Boolean).sort(...) of a directory whose promises are resolved
Collect(s, dir) ==
    LET names == s.list[dir][1]
    IN  SortNodes(FilterBoolean(
            [i \in 1..Len(names) |-> s.slot[Append(dir, names[i])].val]))

RECURSIVE Settle(_, _), Return(_, _, _)
\* A variant that waits for the first promise of the directory to resolve
\* rather than for all of them, and returns the nodes resolved by then.
SettleAny(s, dir) ==
    IF s.list[dir] = null THEN s
    ELSE LET names == s.list[dir][1]
             done == SelectSeq(names,
                               LAMBDA n : s.slot[Append(dir, n)].st = "done")
         IN  IF Len(names) > 0 /\ Len(done) = 0
             THEN s
             ELSE Return([s EXCEPT !.list[dir] = null,
                                   !.slot = [p \in UniversePaths |->
                                                IF Parent(p) = dir THEN NoSlot ELSE @[p]]],
                         dir,
                         SortNodes(FilterBoolean(
                             [i \in 1..Len(done) |-> s.slot[Append(dir, done[i])].val])))

\* Promise.all of dir: once every promise of the directory is resolved the call
\* on dir returns the sorted nodes, and its own results are dropped.
Settle(s, dir) ==
    LET names == s.list[dir][1]
    IN  IF \E i \in 1..Len(names) : s.slot[Append(dir, names[i])].st # "done"
        THEN s
        ELSE Return([s EXCEPT !.list[dir] = null,
                              !.slot = [p \in UniversePaths |->
                                           IF Parent(p) = dir THEN NoSlot ELSE @[p]]],
                    dir, Collect(s, dir))

\* The call on dir returns children: to refreshCache for ROOT_DIR, else to the
\* callback of the entry in the parent's map, which resolves the entry's promise.
Return(s, dir, children) ==
    IF dir = <<>> THEN [s EXCEPT !.result = Some(children)]
    ELSE Settle([s EXCEPT !.slot[dir] = Done(DirectoryResult(dir, children))],
                Parent(dir))

\* The readdir of dir completes: a rejection makes the call return [], a listing
\* is filtered by name and one stat is started for each remaining entry.
AfterReaddir(s, dir, r) ==
    LET s0 == [s EXCEPT !.readdir = @ \ {dir}]
    IN  IF r = null
        THEN Return([s0 EXCEPT !.rootFailed = @ \/ dir = <<>>], dir, <<>>)
        ELSE LET names == SelectSeq(r[1], LAMBDA n : ~Excluded(n))
                 mine == {Append(dir, names[i]) : i \in 1..Len(names)}
             IN  Settle([s0 EXCEPT !.list[dir] = Some(names),
                                   !.slot = [p \in UniversePaths |->
                                                IF p \in mine THEN StatPending ELSE @[p]]],
                        dir)

\* The stat of entry p completes: a rejection resolves its promise to null, a
\* directory starts the recursive call, a file resolves to its node or to null.
AfterStat(s, p, r) ==
    IF r = null THEN Settle([s EXCEPT !.slot[p] = Done(null)], Parent(p))
    ELSE IF r[1].isDirectory
    THEN [s EXCEPT !.slot[p] = ScanPending, !.readdir = @ \cup {p}]
    ELSE Settle([s EXCEPT !.slot[p] = Done(FileResult(p, r[1]))], Parent(p))

\* ------------------------------------------------- the scanners by themselves

\* The entries a disk may hold below ROOT_DIR: videos with lower-case and
\* upper-case extensions, a text file, a hidden video, two directories whose
\* names sort against their code points, a nested directory, node_modules
\* and web_view directories that hold videos, and a video whose name holds a
\* backslash, as a name may on a POSIX host.
Z_MP4 == <<"Z", ".", "m", "p", "4">>

AP == <<"a", "p">>

B_MKV == <<"b", ".", "M", "K", "V">>

N_TXT == <<"n", ".", "t", "x", "t">>

H_MP4 == <<".", "h", ".", "m", "p", "4">>

Q == <<"Q">>

C_AVI == <<"c", ".", "a", "v", "i">>

E == <<"e">>

V_MOV == <<"v", ".", "m", "o", "v">>

M_MP4 == <<"m", ".", "m", "p", "4">>

Q_WEBM == <<"q", ".", "w", "e", "b", "m">>

W_MP4 == <<"w", ".", "m", "p", "4">>

R_MP4 == <<"r", "\\", "s", ".", "m", "p", "4">>

\* The names a directory of the disk may hold, in the order of its listing.
WorldListing(dir) ==
    IF dir = <<>> THEN <<Z_MP4, AP, B_MKV, N_TXT, H_MP4, Q>>
    ELSE IF dir = <<AP>> THEN <<C_AVI, E, NODE_MODULES>>
    ELSE IF dir = <<AP, E>> THEN <<V_MOV>>
    ELSE IF dir = <<AP, NODE_MODULES>> THEN <<M_MP4>>
    ELSE IF dir = <<Q>> THEN <<Q_WEBM, WEB_VIEW, R_MP4>>
    ELSE IF dir = <<Q, WEB_VIEW>> THEN <<W_MP4>>
    ELSE <<>>

WorldDirs == {<<AP>>, <<AP, E>>, <<AP, NODE_MODULES>>, <<Q>>, <<Q, WEB_VIEW>>}

WorldPaths ==
    UNION {{Append(dir, WorldListing(dir)[i]) : i \in 1..Len(WorldListing(dir))} :
              dir \in WorldDirs \cup {<<>>}}

\* stat.isDirectory()
WorldIsDirectory(p) == p \in WorldDirs

\* stat.size
WorldSize(p) == Len(JoinPath(p))

\* The lookups that may fail on a disk: the stat of an entry, the readdir of a
\* directory or of ROOT_DIR.
FailurePoints ==
    [op : {"stat"}, path : WorldPaths] \cup
    [op : {"readdir"}, path : WorldDirs \cup {<<>>}]

\* The subsets of X of k elements or fewer.
RECURSIVE UpTo(_, _)
UpTo(X, k) ==
    IF k = 0 THEN {{}}
    ELSE LET smaller == UpTo(X, k - 1)
         IN  smaller \cup {S \cup {x} : S \in smaller, x \in X}

\* A disk: the entries present, the lookups that fail, and whether readdir
\* reports a directory in the order of WorldListing or in the reverse order.
Disks ==
    {[present |-> WorldPaths \ a, failing |-> f, reversed |-> r] :
        a \in UpTo(WorldPaths, MaxAbsent),
        f \in UpTo(FailurePoints, MaxFailures),
        r \in BOOLEAN}

Reverse(s) == [i \in 1..Len(s) |-> s[Len(s) + 1 - i]]

\* readdir(dir) on disk dk: null stands for the exception or the rejection.
ReaddirOn(dk, dir) ==
    IF [op |-> "readdir", path |-> dir] \in dk.failing THEN null
    ELSE LET names == SelectSeq(WorldListing(dir),
                                LAMBDA n : Append(dir, n) \in dk.present)
         IN  Some(IF dk.reversed THEN Reverse(names) ELSE names)

\* A variant in which a failed stat counts as the stat of an empty file.
StatOnDefault(dk, p) ==
    IF [op |-> "stat", path |-> p] \in dk.failing \/ p \notin dk.present
    THEN Some([isDirectory |-> FALSE, size |-> 0])
    ELSE Some([isDirectory |-> WorldIsDirectory(p), size |-> WorldSize(p)])

\* stat(filePath) on disk dk: null stands for the exception or the rejection.
StatOn(dk, p) ==
    IF [op |-> "stat", path |-> p] \in dk.failing \/ p \notin dk.present THEN null
    ELSE Some([isDirectory |-> WorldIsDirectory(p), size |-> WorldSize(p)])

\* scanDirectoryAsync(dir) from its call to its return, on a disk that does not
\* change meanwhile: Promise.all gives the results in the order of the list.
RECURSIVE scanDirectoryAsync(_, _)
scanDirectoryAsync(dk, dir) ==
    LET r == ReaddirOn(dk, dir)
    IN  IF r = null THEN <<>>
        ELSE LET list == SelectSeq(r[1], LAMBDA file : ~Excluded(file))
                 results ==
                     [i \in 1..Len(list) |->
                         LET filePath == Append(dir, list[i])
                             st == StatOn(dk, filePath)
                         IN  IF st = null THEN null
                             ELSE IF st[1].isDirectory
                             THEN DirectoryResult(filePath,
                                                  scanDirectoryAsync(dk, filePath))
                             ELSE FileResult(filePath, st[1])]
             IN  SortNodes(FilterBoolean(results))

RECURSIVE scanDirectory(_, _), ForEach(_, _, _, _), ForEachAborting(_, _, _, _)
\* A variant of the loop that a subdirectory whose listing fails ends: the
\* entries after it are not visited.
ForEachAborting(dk, dir, list, results) ==
    IF Len(list) = 0 THEN results
    ELSE LET file == Head(list)
             filePath == Append(dir, file)
             stat == StatOn(dk, filePath)
         IN  IF Excluded(file) \/ stat = null
             THEN ForEachAborting(dk, dir, Tail(list), results)
             ELSE IF stat[1].isDirectory
             THEN IF ReaddirOn(dk, filePath) = null THEN results
                  ELSE LET children == scanDirectory(dk, filePath)
                       IN  ForEachAborting(dk, dir, Tail(list),
                               IF Len(children) > 0
                               THEN Append(results,
                                           DirectoryNode(file, filePath, children))
                               ELSE results)
             ELSE ForEachAborting(dk, dir, Tail(list),
                      IF includes(VIDEO_EXTENSIONS, toLowerCase(extname(file)))
                      THEN Append(results, FileNode(file, filePath, stat[1].size))
                      ELSE results)

\* scanDirectory(dir) of the synchronous server: forEach pushes the nodes onto
\* results in the order of the list, and results is sorted at the end.
scanDirectory(dk, dir) ==
    LET list == ReaddirOn(dk, dir)
    IN  IF list = null THEN <<>>
        ELSE SortNodes(ForEach(dk, dir, list[1], <<>>))

\* list.forEach(file => ...) over the entries not yet visited.
ForEach(dk, dir, list, results) ==
    IF Len(list) = 0 THEN results
    ELSE LET file == Head(list)
             filePath == Append(dir, file)
             stat == StatOn(dk, filePath)
             pushed ==
                 IF Excluded(file) THEN results
                 ELSE IF stat = null THEN results
                 ELSE IF stat[1].isDirectory
                 THEN LET children == scanDirectory(dk, filePath)
                      IN  IF Len(children) > 0
                          THEN Append(results, DirectoryNode(file, filePath, children))
                          ELSE results
                 ELSE LET ext == toLowerCase(extname(file))
                      IN  IF includes(VIDEO_EXTENSIONS, ext)
                          THEN Append(results, FileNode(file, filePath, stat[1].size))
                          ELSE results
         IN  ForEach(dk, dir, Tail(list), pushed)

\* ------------------------------------------------------------- timeouts

\* A variant of clearTimeout that cancels nothing.
ClearNothing(ts, h) == ts

\* clearTimeout(handle): a null handle and the handle of a timeout that has
\* fired or was cleared change nothing.
ClearTimeout(ts, h) == IF h = null THEN ts ELSE {t \in ts : t.id # h[1]}

\* The handle setTimeout returns: an id no pending timeout has.
NewTimerId(ts) ==
    CHOOSE i \in 1..(Cardinality(ts) + 1) :
        /\ \A t \in ts : t.id # i
        /\ \A j \in 1..(i - 1) : \E t \in ts : t.id = j

\* setTimeout(callback, delay)
SetTimeout(ts, delay) == ts \cup {[id |-> NewTimerId(ts), due |-> delay]}

\* A timeout is due: the event loop runs it before it polls for new events.
TimerDue == \E t \in timers : t.due = 0

\* ----------------------------------------------------------- refreshCache

\* A variant of the test of line 144 that never finds a scan running.
NeverRunning == FALSE

\* The test of line 144.
ScanAlreadyRunning == isScanRunning

\* A variant of line 149 that leaves the flag as it is.
FlagNotSet == FALSE

\* Line 149.
FlagAtStart == TRUE

\* A variant of refreshCache() that, called while a scan runs, abandons that
\* scan and starts another.
RefreshCacheRestart(by, aw) ==
    /\ refreshed' = Some([by |-> by, how |-> IF isScanRunning THEN "skipped" ELSE "started"])
    /\ isScanRunning' = TRUE
    /\ scans' = <<NewScan(aw)>>

\* refreshCache() up to its await, called by `by`: a call made while a scan
\* runs returns, any other call sets the flag and starts
\* scanDirectoryAsync(ROOT_DIR), which runs to its first await (the readdir of
\* ROOT_DIR).
RefreshCache(by, aw) ==
    IF ScanAlreadyRunning
    THEN /\ refreshed' = Some([by |-> by, how |-> "skipped"])
         /\ UNCHANGED <<isScanRunning, scans>>
    ELSE /\ refreshed' = Some([by |-> by, how |-> "started"])
         /\ isScanRunning' = FlagAtStart
         /\ scans' = Append(scans, NewScan(aw))

\* A variant in which the scan publishes the nodes of ROOT_DIR it has so far.
CachePartial(old, s) ==
    LET names == IF s.list[<<>>] = null THEN <<>> ELSE s.list[<<>>][1]
        got == [i \in 1..Len(names) |->
                   IF s.slot[<<names[i]>>].st = "done"
                   THEN s.slot[<<names[i]>>].val ELSE null]
    IN  IF Len(names) = 0 THEN old ELSE Some(SortNodes(FilterBoolean(got)))

\* A variant that empties the cache while a scan is at its lookups.
CacheEmptyWhileScanning(old, s) == Some(<<>>)

\* Lines 153-154: while scanDirectoryAsync(ROOT_DIR) has not returned, the scan
\* in state s assigns nothing to cachedTree.
CacheDuringScan(old, s) == old

\* A variant that keeps the old cache when the scan returned no node.
CacheAfterSuccessNonEmpty(old, tree) == IF tree = <<>> THEN old ELSE Some(tree)

\* Line 155: the assignment after the await, on success.
CacheAfterSuccess(old, tree) == Some(tree)

\* A variant of the catch block that resets the cache to the empty list.
CacheEmptiedOnFailure(old) == Some(<<>>)

\* A variant of the catch block that resets the cache to null.
CacheClearedOnFailure(old) == null

\* The catch block: the error is logged.
CacheAfterFailure(old) == old

\* A variant without the finally block.
FlagLeftSet == TRUE

\* The finally block.
FlagAfterScan == FALSE

\* fs.watch(ROOT_DIR, ...) in setupWatcher: ok is whether the call returns; when
\* it throws, the catch block logs and no callback is ever registered.
SetupWatcher(ok) == watcher' = IF ok THEN "active" ELSE "failed"

\* The rest of the app.listen callback, run when the refreshCache() it awaits
\* has returned.
Resume(aw) ==
    IF aw
    THEN pc' = "done" /\ \E ok \in BOOLEAN : SetupWatcher(ok)
    ELSE UNCHANGED <<pc, watcher>>

RemoveAt(s, k) == SubSeq(s, 1, k - 1) \o SubSeq(s, k + 1, Len(s))

\* How a scan ended: by a return ("ok") or an exception ("throw"), whether the
\* readdir of ROOT_DIR had rejected, cachedTree when the scan was started, and
\* what scanDirectoryAsync(ROOT_DIR) returned.
Ended(s, how) ==
    Some([how |-> how, rootFailed |-> s.rootFailed, before |-> s.before,
          result |-> s.result])

\* The step of scan k that an I/O completion ends in state s2: the scan goes on,
\* or scanDirectoryAsync(ROOT_DIR) has returned and refreshCache runs to its end.
Conclude(k, s2) ==
    IF s2.result = null
    THEN /\ scans' = [scans EXCEPT ![k] = s2]
         /\ cachedTree' = CacheDuringScan(cachedTree, s2)
         /\ concluded' = null
         /\ UNCHANGED <<isScanRunning, pc, watcher, ScanHistory>>
    ELSE /\ scans' = RemoveAt(scans, k)
         /\ cachedTree' = CacheAfterSuccess(cachedTree, s2.result[1])
         /\ isScanRunning' = FlagAfterScan
         /\ concluded' = Ended(s2, "ok")
         /\ returned' = s2.result
         /\ stale' = FALSE
         /\ Resume(s2.awaited)

\* ---------------------------------------------------------------- actions

\* A variant of the callback that calls setupWatcher() before it awaits
\* refreshCache().
ListenCallbackWatchFirst ==
    /\ pc = "listen"
    /\ RefreshCache("listen", TRUE)
    /\ \E ok \in BOOLEAN : SetupWatcher(ok)
    /\ pc' = IF ScanAlreadyRunning THEN "done" ELSE "await"
    /\ response' = null /\ concluded' = null
    /\ event' = null
    /\ UNCHANGED <<ScanVars, ClientVars>>
    /\ UNCHANGED <<cachedTree, debounceTimer, timers, fs, WatchHistory, ScanHistory>>

\* The app.listen callback up to its await.
ListenCallback ==
    /\ pc = "listen"
    /\ RefreshCache("listen", TRUE)
    /\ IF ScanAlreadyRunning
       THEN pc' = "done" /\ \E ok \in BOOLEAN : SetupWatcher(ok)
       ELSE pc' = "await" /\ UNCHANGED watcher
    /\ response' = null /\ concluded' = null
    /\ event' = null
    /\ UNCHANGED <<ScanVars, ClientVars>>
    /\ UNCHANGED <<cachedTree, debounceTimer, timers, fs, WatchHistory, ScanHistory>>

\* A readdir of scan k completes.
ReaddirDone(k, dir, err) ==
    /\ k \in 1..Len(scans)
    /\ dir \in scans[k].readdir
    /\ Conclude(k, AfterReaddir(scans[k], dir, Readdir(fs, dir, err)))
    /\ response' = null /\ refreshed' = null
    /\ event' = null
    /\ UNCHANGED <<ScanVars, ClientVars>>
    /\ UNCHANGED <<debounceTimer, timers, fs, WatchHistory>>

\* A stat of scan k completes.
StatDone(k, p, err) ==
    /\ k \in 1..Len(scans)
    /\ scans[k].slot[p] = StatPending
    /\ Conclude(k, AfterStat(scans[k], p, Stat(fs, p, err)))
    /\ response' = null /\ refreshed' = null
    /\ event' = null
    /\ UNCHANGED <<ScanVars, ClientVars>>
    /\ UNCHANGED <<debounceTimer, timers, fs, WatchHistory>>

\* Scan k ends by an exception the scanner does not catch (anything but the
\* rejections of readdir and stat): refreshCache's catch and finally blocks run.
ScanThrow(k) ==
    /\ k \in 1..Len(scans)
    /\ scans' = RemoveAt(scans, k)
    /\ cachedTree' = CacheAfterFailure(cachedTree)
    /\ isScanRunning' = FlagAfterScan
    /\ concluded' = Ended(scans[k], "throw")
    /\ stale' = (returned # null)
    /\ Resume(scans[k].awaited)
    /\ response' = null /\ refreshed' = null
    /\ event' = null
    /\ UNCHANGED <<ScanVars, ClientVars>>
    /\ UNCHANGED <<debounceTimer, timers, fs, WatchHistory, returned>>

\* A variant of the route that also takes an empty tree for a cache not ready.
ApiFilesEmptyIsLoading(cache) ==
    IF cache = null \/ cache = Some(<<>>)
    THEN [route |-> "GET /api/files", status |-> 503,
          body |-> [loading |-> TRUE, tree |-> null]]
    ELSE [route |-> "GET /api/files", status |-> 200,
          body |-> [loading |-> FALSE, tree |-> cache]]

\* The response of app.get('/api/files').
ApiFiles(cache) ==
    IF cache = null
    THEN [route |-> "GET /api/files", status |-> 503,
          body |-> [loading |-> TRUE, tree |-> null]]
    ELSE [route |-> "GET /api/files", status |-> 200,
          body |-> [loading |-> FALSE, tree |-> cache]]

\* A variant of the route that calls refreshCache() when the cache is not ready.
GetFilesRefreshing ==
    /\ pc # "listen"
    /\ response' = Some(ApiFiles(cachedTree))
    /\ IF cachedTree = null
       THEN RefreshCache("get", FALSE)
       ELSE refreshed' = null /\ UNCHANGED <<isScanRunning, scans>>
    /\ concluded' = null
    /\ event' = null
    /\ UNCHANGED <<ScanVars, ClientVars>>
    /\ UNCHANGED <<cachedTree, debounceTimer, timers, pc, watcher, fs,
                   WatchHistory, ScanHistory>>

\* The handler of GET /api/files, the server listening.
GetFilesRoute ==
    /\ pc # "listen"
    /\ response' = Some(ApiFiles(cachedTree))
    /\ event' = null
    /\ UNCHANGED ScanVars
    /\ refreshed' = null /\ concluded' = null
    /\ UNCHANGED <<cachedTree, isScanRunning, debounceTimer, timers, scans, pc,
                   watcher, fs, WatchHistory, ScanHistory>>

\* GET /api/files, asked by a client that is not the page.
GetFiles ==
    /\ GetFilesRoute
    /\ UNCHANGED ClientVars

\* A variant of the response that tells a skipped request from a started one.
ApiRefreshConflict ==
    [route |-> "POST /api/refresh", status |-> IF isScanRunning THEN 409 ELSE 200,
     body |-> [loading |-> isScanRunning, tree |-> null]]

\* The response of app.post('/api/refresh').
ApiRefresh ==
    [route |-> "POST /api/refresh", status |-> 200,
     body |-> [loading |-> FALSE, tree |-> null]]

\* A variant of the route that empties the cache before it refreshes it.
PostRefreshInvalidating ==
    /\ pc # "listen"
    /\ RefreshCache("post", FALSE)
    /\ cachedTree' = null
    /\ response' = Some(ApiRefresh)
    /\ concluded' = null
    /\ event' = null
    /\ UNCHANGED <<ScanVars, ClientVars>>
    /\ UNCHANGED <<debounceTimer, timers, pc, watcher, fs,
                   WatchHistory, ScanHistory>>

\* The handler of POST /api/refresh, the server listening.
PostRefreshRoute ==
    /\ pc # "listen"
    /\ RefreshCache("post", FALSE)
    /\ response' = Some(ApiRefresh)
    /\ event' = null
    /\ UNCHANGED ScanVars
    /\ concluded' = null
    /\ UNCHANGED <<cachedTree, debounceTimer, timers, pc, watcher, fs,
                   WatchHistory, ScanHistory>>

\* POST /api/refresh, asked by a client that is not the page.
PostRefresh ==
    /\ PostRefreshRoute
    /\ UNCHANGED ClientVars

\* The file names fs.watch reports: none, a video in a subdirectory, a text
\* file, a name without extension.
EventFilenames ==
    {null, Some(<<"d", "/", "c", ".", "M", "K", "V">>),
     Some(<<"n", ".", "t", "x", "t">>), Some(<<"d">>)}

\* A variant of the test that lets every event through.
QualifiesAny(filename) == TRUE

\* A variant of the test that compares the extension as it is written.
QualifiesCaseSensitive(filename) ==
    IF filename # null /\ filename[1] # <<>>
    THEN LET ext == extname(filename[1])
         IN  ~(ext # <<>> /\ ~includes(VIDEO_EXTENSIONS, ext))
    ELSE TRUE

\* The test of lines 192-196: the event is not ignored.
Qualifies(filename) ==
    IF filename # null /\ filename[1] # <<>>
    THEN LET ext == toLowerCase(extname(filename[1]))
         IN  ~(ext # <<>> /\ ~includes(VIDEO_EXTENSIONS, ext))
    ELSE TRUE

\* A variant of line 201 that clears nothing.
NothingCleared == timers

\* Line 201: the timeouts after the callback has cleared its handle.
AfterClear == ClearTimeout(timers, debounceTimer)

\* sinceEvent is not counted beyond this.
LongAgo == DEBOUNCE_DELAY_MS + 1

\* A variant in which the callback is taken to be registered although fs.watch
\* threw.
SubscribedAnyway == watcher # "none"

\* The callback of line 190 is registered only when fs.watch returned.
Subscribed == watcher = "active"

\* The callback of fs.watch.  An event that comes DEBOUNCE_DELAY_MS or more
\* after the last qualifying one begins a burst.
WatchEvent(filename) ==
    /\ Subscribed
    /\ ~TimerDue
    /\ IF Qualifies(filename)
       THEN /\ Cardinality(AfterClear) < MaxTimers
            /\ timers' = SetTimeout(AfterClear, DEBOUNCE_DELAY_MS)
            /\ debounceTimer' = Some(NewTimerId(AfterClear))
            /\ sinceEvent' = 0
            /\ IF sinceEvent >= DEBOUNCE_DELAY_MS
               THEN burst' = 1 /\ owed' = owed + 1
               ELSE burst' = Min(burst + 1, MaxBurst) /\ owed' = owed
       ELSE UNCHANGED <<timers, debounceTimer, WatchHistory>>
    /\ response' = null /\ refreshed' = null /\ concluded' = null
    /\ event' = Some([filename |-> filename])
    /\ UNCHANGED <<ScanVars, ClientVars>>
    /\ UNCHANGED <<cachedTree, isScanRunning, scans, pc, watcher, fs, ScanHistory>>

\* The callback of the debounce timeout.
TimerFire ==
    /\ \E t \in timers : t.due = 0 /\ timers' = timers \ {t}
    /\ RefreshCache("timer", FALSE)
    /\ owed' = owed - 1
    /\ response' = null /\ concluded' = null
    /\ event' = null
    /\ UNCHANGED <<ScanVars, ClientVars>>
    /\ UNCHANGED <<cachedTree, debounceTimer, pc, watcher, fs, sinceEvent, burst,
                   ScanHistory>>

\* Time passes, up to the next timeout.
Tick ==
    /\ ~TimerDue
    /\ timers # {} \/ sinceEvent < LongAgo
    /\ LET dues == {t.due : t \in timers} \cup {MsPerTick}
           d == CHOOSE x \in dues : \A y \in dues : x <= y
       IN  /\ timers' = {[t EXCEPT !.due = @ - d] : t \in timers}
           /\ sinceEvent' = Min(sinceEvent + d, LongAgo)
    /\ response' = null /\ refreshed' = null /\ concluded' = null
    /\ event' = null
    /\ UNCHANGED <<ScanVars, ClientVars>>
    /\ UNCHANGED <<cachedTree, isScanRunning, debounceTimer, scans, pc, watcher,
                   fs, burst, owed, ScanHistory>>

\* The environment creates or removes an entry.
FsChange ==
    /\ \E p \in UniversePaths :
         fs' = IF p \in fs THEN fs \ {p} ELSE fs \cup {p}
    /\ response' = null /\ refreshed' = null /\ concluded' = null
    /\ event' = null
    /\ UNCHANGED <<ScanVars, ClientVars>>
    /\ UNCHANGED <<cachedTree, isScanRunning, debounceTimer, timers, scans, pc,
                   watcher, WatchHistory, ScanHistory>>

\* ----------------------------------------------------------------- client

\* The page may have this many fetch() calls and timeouts pending when the
\* refresh button is clicked.
MaxPending == 2

\* The delay of the retry after a 503 (fetchFiles, line 39).
RetryDelayMs == 3000

\* The delay of the retry after a request that failed (fetchFiles, line 49).
ErrorRetryDelayMs == 5000

\* The delay of the reload after the acknowledgment (handleRefresh, line 69).
ReloadDelayMs == 2500

\* What the element file-tree shows: the markup of the page, the spinner of
\* line 33, the error message of line 48, or what renderTree put there.
Markup == [shows |-> "markup", items |-> <<>>]

Spinner == [shows |-> "spinner", items |-> <<>>]

ErrorMsg == [shows |-> "error", items |-> <<>>]

\* renderTree(items, container): the message of line 85 for no items, else one
\* element for each item, each holding its item.
renderTree(items) ==
    IF Len(items) = 0
    THEN [shows |-> "no videos", items |-> <<>>]
    ELSE [shows |-> "tree", items |-> items]

\* fetch(route, ...) up to its await: the request of `caller` is on its way.
Fetch(h, route, caller) ==
    Append(h, [route |-> route, caller |-> caller, reply |-> null])

\* setTimeout(callback, delay) in the page.  How long a request, a scan or a
\* timeout of the page takes against one another is not known, so a pending
\* timeout keeps its delay and the time left of it is not counted.
ClientSetTimeout(ts, callback, delay) ==
    ts \cup {[id |-> NewTimerId(ts), delay |-> delay, callback |-> callback]}

\* The state of the page when the document is parsed.
ClientInit ==
    /\ loaded = FALSE
    /\ treeContainer = Markup
    /\ btnDisabled = FALSE
    /\ http = <<>>
    /\ clientTimers = {}

\* A step of the page alone: the server does nothing.
ServerIdle ==
    /\ response' = null /\ refreshed' = null /\ concluded' = null
    /\ event' = null
    /\ UNCHANGED ScanVars
    /\ UNCHANGED <<cachedTree, isScanRunning, debounceTimer, timers, scans, pc,
                   watcher, fs, WatchHistory, ScanHistory>>

\* The listener of DOMContentLoaded: fetchFiles() up to its await.
DOMContentLoaded ==
    /\ ~loaded
    /\ loaded' = TRUE
    /\ http' = Fetch(http, "GET /api/files", "load")
    /\ UNCHANGED <<treeContainer, btnDisabled, clientTimers>>
    /\ ServerIdle

\* A click on the refresh button, which a disabled button does not take:
\* handleRefresh() up to its await.
Click ==
    /\ loaded
    /\ ~btnDisabled
    /\ Len(http) + Cardinality(clientTimers) < MaxPending
    /\ btnDisabled' = TRUE
    /\ http' = Fetch(http, "POST /api/refresh", "click")
    /\ UNCHANGED <<loaded, treeContainer, clientTimers>>
    /\ ServerIdle

\* The server handles request i of the page for GET /api/files.
FilesServed(i) ==
    /\ i \in DOMAIN http
    /\ http[i].route = "GET /api/files" /\ http[i].reply = null
    /\ GetFilesRoute
    /\ http' = [http EXCEPT ![i].reply = response']
    /\ UNCHANGED <<loaded, treeContainer, btnDisabled, clientTimers>>

\* The server handles request i of the page for POST /api/refresh.
RefreshServed(i) ==
    /\ i \in DOMAIN http
    /\ http[i].route = "POST /api/refresh" /\ http[i].reply = null
    /\ PostRefreshRoute
    /\ http' = [http EXCEPT ![i].reply = response']
    /\ UNCHANGED <<loaded, treeContainer, btnDisabled, clientTimers>>

\* The timeout callback of handleRefresh after its await fetchFiles(): lines
\* 67-68, for the call the reload made and for no other.
AfterFetchFiles(caller) == IF caller = "reload" THEN FALSE ELSE btnDisabled

\* A variant of line 39 that schedules no retry.
NoRetry(ts) == ts

\* Line 39.
Retry(ts) == ClientSetTimeout(ts, "fetchFiles", RetryDelayMs)

\* fetchFiles() from the response to its end: the response to request i has
\* come.
FetchFilesResumes(i) ==
    /\ i \in DOMAIN http
    /\ http[i].route = "GET /api/files" /\ http[i].reply # null
    /\ IF http[i].reply[1].status = 503
       THEN /\ treeContainer' = Spinner
            /\ clientTimers' = Retry(clientTimers)
       ELSE /\ treeContainer' = renderTree(http[i].reply[1].body.tree[1])
            /\ UNCHANGED clientTimers
    /\ http' = RemoveAt(http, i)
    /\ btnDisabled' = AfterFetchFiles(http[i].caller)
    /\ UNCHANGED loaded
    /\ ServerIdle

\* fetchFiles() from the rejection of fetch to its end: request i has failed,
\* before or after the server handled it.
FetchFilesCatches(i) ==
    /\ i \in DOMAIN http
    /\ http[i].route = "GET /api/files"
    /\ treeContainer' = ErrorMsg
    /\ clientTimers' = ClientSetTimeout(clientTimers, "fetchFiles", ErrorRetryDelayMs)
    /\ http' = RemoveAt(http, i)
    /\ btnDisabled' = AfterFetchFiles(http[i].caller)
    /\ UNCHANGED loaded
    /\ ServerIdle

\* handleRefresh() from the response to its end: whatever its status, the
\* reload is scheduled and the button stays disabled.
HandleRefreshResumes(i) ==
    /\ i \in DOMAIN http
    /\ http[i].route = "POST /api/refresh" /\ http[i].reply # null
    /\ clientTimers' = ClientSetTimeout(clientTimers, "reload", ReloadDelayMs)
    /\ http' = RemoveAt(http, i)
    /\ UNCHANGED <<loaded, treeContainer, btnDisabled>>
    /\ ServerIdle

\* handleRefresh() from the rejection of fetch to its end.
HandleRefreshCatches(i) ==
    /\ i \in DOMAIN http
    /\ http[i].route = "POST /api/refresh"
    /\ btnDisabled' = FALSE
    /\ http' = RemoveAt(http, i)
    /\ UNCHANGED <<loaded, treeContainer, clientTimers>>
    /\ ServerIdle

\* The callback of the timeout the page knows by id, its delay over: fetchFiles() up to
\* its await, called by the timeout itself (a retry) or by the callback of
\* line 65 (the reload).
ClientTimerFire(id) ==
    /\ \E t \in clientTimers :
         /\ t.id = id
         /\ clientTimers' = clientTimers \ {t}
         /\ http' = Fetch(http, "GET /api/files",
                          IF t.callback = "reload" THEN "reload" ELSE "retry")
    /\ UNCHANGED <<loaded, treeContainer, btnDisabled>>
    /\ ServerIdle

Init ==
    /\ cachedTree = null
    /\ isScanRunning = FALSE
    /\ debounceTimer = null
    /\ timers = {}
    /\ scans = <<>>
    /\ pc = "listen"
    /\ watcher = "none"
    /\ fs \in FsStates
    /\ response = null
    /\ refreshed = null
    /\ concluded = null
    /\ event = null
    /\ sinceEvent = LongAgo
    /\ burst = 0
    /\ owed = 0
    /\ returned = null
    /\ stale = FALSE
    /\ ClientInit
    /\ disk = null
    /\ asyncTree = null
    /\ syncTree = null

Next ==
    \/ ListenCallback
    \/ \E k \in 1..Len(scans), dir \in Dirs, err \in BOOLEAN : ReaddirDone(k, dir, err)
    \/ \E k \in 1..Len(scans), p \in UniversePaths, err \in BOOLEAN : StatDone(k, p, err)
    \/ \E k \in 1..Len(scans) : ScanThrow(k)
    \/ GetFiles
    \/ PostRefresh
    \/ \E filename \in EventFilenames : WatchEvent(filename)
    \/ TimerFire
    \/ Tick
    \/ FsChange

Spec == Init /\ [][Next]_vars

\* Time passes, and the event loop runs the callback of a timeout that is due.
FairSpec == Spec /\ WF_vars(Tick) /\ WF_vars(TimerFire)

\* const tree = await scanDirectoryAsync(ROOT_DIR), on a disk by itself.
ScanAsync ==
    /\ asyncTree = null
    /\ asyncTree' = Some(scanDirectoryAsync(disk, <<>>))
    /\ UNCHANGED <<disk, syncTree, ServerVars, ClientVars>>

\* const tree = scanDirectory(ROOT_DIR), on a disk by itself.
ScanSync ==
    /\ syncTree = null
    /\ syncTree' = Some(scanDirectory(disk, <<>>))
    /\ UNCHANGED <<disk, asyncTree, ServerVars, ClientVars>>

\* A disk, and no scanner run on it yet; the server is left out.
ScanInit ==
    /\ disk \in Disks
    /\ asyncTree = null
    /\ syncTree = null
    /\ cachedTree = null
    /\ isScanRunning = FALSE
    /\ debounceTimer = null
    /\ timers = {}
    /\ scans = <<>>
    /\ pc = "listen"
    /\ watcher = "none"
    /\ fs = {}
    /\ response = null
    /\ refreshed = null
    /\ concluded = null
    /\ event = null
    /\ sinceEvent = LongAgo
    /\ burst = 0
    /\ owed = 0
    /\ returned = null
    /\ stale = FALSE
    /\ ClientInit

ScanNext ==
    \/ ScanAsync
    \/ ScanSync

ScanSpec == ScanInit /\ [][ScanNext]_vars

\* The lookups that may fail in every scan of a run on an unchanged disk.
RaceFailurePoints ==
    [op : {"stat"}, path : UniversePaths] \cup [op : {"readdir"}, path : Dirs]

\* The server on a disk that does not change, where a lookup fails in every
\* scan or in none: fs is the disk's entries, and disk.failing its failures.
RaceInit ==
    /\ cachedTree = null
    /\ isScanRunning = FALSE
    /\ debounceTimer = null
    /\ timers = {}
    /\ scans = <<>>
    /\ pc = "listen"
    /\ watcher = "none"
    /\ fs \in FsStates
    /\ \E f \in UpTo(RaceFailurePoints, MaxFailures) :
          disk = [present |-> fs, failing |-> f, reversed |-> FALSE]
    /\ response = null
    /\ refreshed = null
    /\ concluded = null
    /\ event = null
    /\ sinceEvent = LongAgo
    /\ burst = 0
    /\ owed = 0
    /\ returned = null
    /\ stale = FALSE
    /\ ClientInit
    /\ asyncTree = null
    /\ syncTree = null

\* The scans of the server on that disk: the lookups of a scan complete in
\* any order, each failing as the disk says.
RaceNext ==
    \/ ListenCallback
    \/ \E k \in 1..Len(scans), dir \in Dirs :
          ReaddirDone(k, dir, [op |-> "readdir", path |-> dir] \in disk.failing)
    \/ \E k \in 1..Len(scans), p \in UniversePaths :
          StatDone(k, p, [op |-> "stat", path |-> p] \in disk.failing)
    \/ PostRefresh

RaceSpec == RaceInit /\ [][RaceNext]_vars

\* The page and the server it loads from, the disk holding nothing or a.mp4.
ClientLoad ==
    /\ Init
    /\ fs \in {{}, {<<A_MP4>>}}

\* The server starts and its scans run, while the page loads, polls and is
\* clicked; what the page asks, the server answers or the network fails.
ClientNext ==
    \/ ListenCallback
    \/ \E k \in 1..Len(scans), dir \in Dirs : ReaddirDone(k, dir, FALSE)
    \/ \E k \in 1..Len(scans), p \in UniversePaths : StatDone(k, p, FALSE)
    \/ DOMContentLoaded
    \/ Click
    \/ \E i \in DOMAIN http : FilesServed(i)
    \/ \E i \in DOMAIN http : RefreshServed(i)
    \/ \E i \in DOMAIN http : FetchFilesResumes(i)
    \/ \E i \in DOMAIN http : FetchFilesCatches(i)
    \/ \E i \in DOMAIN http : HandleRefreshResumes(i)
    \/ \E i \in DOMAIN http : HandleRefreshCatches(i)
    \/ \E t \in clientTimers : ClientTimerFire(t.id)

ClientSpec == ClientLoad /\ [][ClientNext]_vars

\* Each timeout of the page fires; the server handles each request that
\* reaches it, and the page each response that reaches it.
ClientFairSpec ==
    /\ ClientSpec
    /\ \A i \in 1..(MaxPending + 1) :
          /\ WF_vars(ClientTimerFire(i))
          /\ WF_vars(FilesServed(i))
          /\ WF_vars(RefreshServed(i))
          /\ WF_vars(FetchFilesResumes(i))
          /\ WF_vars(HandleRefreshResumes(i))

\* ----------------------------------------------------------------- claims

IsGet(r) == r # null /\ r[1].route = "GET /api/files"

CalledBy(by, how) == refreshed # null /\ refreshed[1].by = by /\ refreshed[1].how = how

EndedBy(how) == concluded # null /\ concluded[1].how = how

\* A scan is at a suspension point with one promise resolved and a stat pending.
MidScan ==
    \E k \in 1..Len(scans) : \E p, q \in UniversePaths :
        scans[k].slot[p].st = "done" /\ scans[k].slot[q].st = "stat"

\* C1: whatever the interleaving of the startup call, the POST requests and the
\* firings of the debounce timeout, at most one execution of
\* scanDirectoryAsync(ROOT_DIR) is in flight.
C1_AtMostOneScan == Len(scans) <= 1

\* C1, witness: the debounce timeout has called refreshCache() while a scan was
\* in flight, and the call was skipped.
C1_TimerSkipped == CalledBy("timer", "skipped") /\ Len(scans) = 1

\* C2: when a scan has ended by an exception, cachedTree is the value it had
\* when refreshCache() was called.
C2_ThrowKeepsCache == EndedBy("throw") => cachedTree = concluded[1].before

\* C2, witness: a scan started with a populated cache has thrown.
C2_ThrewWhenPopulated == EndedBy("throw") /\ concluded[1].before # null

\* C3: GET /api/files answers 503 with loading:true as long as no scan has
\* returned, and 200 with cachedTree ever after, also after later scans threw.
C3_GetFiles ==
    /\ ApiFiles(cachedTree).status = IF returned = null THEN 503 ELSE 200
    /\ IsGet(response) =>
          IF returned = null
          THEN response[1].status = 503 /\ response[1].body.loading
          ELSE /\ response[1].status = 200
               /\ response[1].body.tree = cachedTree
               /\ cachedTree # null

\* C3, witness: GET /api/files has answered 200 after a scan threw that came
\* after a scan that returned.
C3_ServedStale == IsGet(response) /\ response[1].status = 200 /\ stale

\* C4: the step that concludes a scan, by a return or an exception, leaves
\* isScanRunning false, and a refreshCache() call made when no scan is in flight
\* starts one.
C4_NeverWedged ==
    [][/\ concluded' # null => ~isScanRunning'
       /\ (scans = <<>> /\ refreshed' # null) =>
             (refreshed'[1].how = "started" /\ Len(scans') = 1)]_vars

\* C4, witness: a refreshCache() call has started a scan after an earlier scan
\* returned and a later one threw.
C4_StartedAfterFailure ==
    refreshed # null /\ refreshed[1].how = "started" /\ stale

\* C5: a burst of qualifying events has exactly one timeout pending until the
\* watcher's one refreshCache() call for it, and that call comes
\* DEBOUNCE_DELAY_MS after the last event of the burst.
C5_OneCallPerBurst ==
    /\ owed = Cardinality(timers)
    /\ owed \in {0, 1}
    /\ \A t \in timers : t.due + sinceEvent = DEBOUNCE_DELAY_MS
    /\ (refreshed # null /\ refreshed[1].by = "timer") =>
          (sinceEvent = DEBOUNCE_DELAY_MS /\ owed = 0)

\* C5, witness: the timeout has fired for a burst of two events or more.
C5_BurstFired == refreshed # null /\ refreshed[1].by = "timer" /\ burst >= 2

\* C6: cachedTree leaves null only in the step in which a scan returns, and
\* once it is not null it is never null again.
C6_EmptyThenPopulated ==
    [][/\ cachedTree # null => cachedTree' # null
       /\ (cachedTree = null /\ cachedTree' # null) =>
             (concluded' # null /\ concluded'[1].how = "ok")]_vars

\* C6, witness: a scan started with the cache empty has returned, and the cache
\* is populated.
C6_Populated ==
    EndedBy("ok") /\ concluded[1].before = null /\ cachedTree # null

\* C7: cachedTree is null or the tree the last scan to return gave, and while a
\* scan is in flight it is the value it had when that scan was started.
C7_NoPartialTree ==
    /\ cachedTree = null \/ cachedTree = returned
    /\ \A k \in 1..Len(scans) : cachedTree = scans[k].before

\* C7, witness: a scan is in the middle of its lookups, one resolved and one
\* pending, while the cache holds the tree of an earlier scan.
C7_MidScanPopulated == MidScan /\ cachedTree # null

\* C8: at every suspension point isScanRunning is true if and only if a scan
\* is in flight.
C8_FlagIffScan == isScanRunning <=> Len(scans) >= 1

\* C8, witness: a scan is in the middle of its lookups and the flag is set.
C8_FlagSetMidScan == MidScan /\ isScanRunning

\* C9: a refreshCache() call made while isScanRunning is true is skipped and
\* changes none of cachedTree, isScanRunning, debounceTimer and the scan in
\* flight, and no timeout but the one whose callback made the call.
C9_SkippedCallFrame ==
    [][(isScanRunning /\ refreshed' # null) =>
          /\ refreshed'[1].how = "skipped"
          /\ cachedTree' = cachedTree
          /\ isScanRunning' = isScanRunning
          /\ debounceTimer' = debounceTimer
          /\ scans' = scans
          /\ IF refreshed'[1].by = "timer"
             THEN \E t \in timers : t.due = 0 /\ timers' = timers \ {t}
             ELSE timers' = timers]_vars

\* C9, witness: a POST /api/refresh has been skipped while a scan was in its
\* lookups, the cache populated and a timeout pending.
C9_PostSkipped ==
    CalledBy("post", "skipped") /\ MidScan /\ cachedTree # null /\ timers # {}

\* C10: a scan in which the readdir of ROOT_DIR rejected leaves cachedTree as it
\* was when refreshCache() was called, and isScanRunning false.
C10_RootFailureKeepsCache ==
    (concluded # null /\ concluded[1].rootFailed) =>
        (cachedTree = concluded[1].before /\ ~isScanRunning)

\* C11: at most one debounce timeout is pending, and it is the one whose handle
\* debounceTimer holds: a qualifying event replaces the pending timeout.
C11_OneTimeoutPending ==
    /\ Cardinality(timers) <= 1
    /\ \A t \in timers : debounceTimer = Some(t.id)

\* C11, witness: a qualifying event has come while the timeout of an earlier
\* event of the burst was pending, and one timeout is pending.
C11_Rearmed ==
    /\ event # null /\ burst >= 2
    /\ \E t \in timers : t.due = DEBOUNCE_DELAY_MS

IsPost(r) == r # null /\ r[1].route = "POST /api/refresh"

\* The lower-cased extension of an event's file name, <<>> when it has none.
EventExtension(filename) ==
    IF filename = null THEN <<>> ELSE toLowerCase(extname(filename[1]))

AllowList ==
    {<<".", "m", "p", "4">>, <<".", "m", "k", "v">>, <<".", "w", "e", "b", "m">>,
     <<".", "a", "v", "i">>, <<".", "m", "o", "v">>}

\* The file name has an extension that is not in the allow-list.
OtherExtension(filename) ==
    EventExtension(filename) # <<>> /\ EventExtension(filename) \notin AllowList

\* C12: the step of a change event whose file name has an extension that is
\* not in the allow-list changes no timeout and not debounceTimer, calls
\* refreshCache() not, and changes neither the cache nor the scans.
C12_OtherExtensionIgnored ==
    [][(event' # null /\ OtherExtension(event'[1].filename)) =>
          /\ timers' = timers
          /\ debounceTimer' = debounceTimer
          /\ refreshed' = null
          /\ scans' = scans
          /\ isScanRunning' = isScanRunning
          /\ cachedTree' = cachedTree]_vars

\* C12, witness: an event for a text file has come while a timeout was pending
\* with part of its delay elapsed.
C12_IgnoredWhilePending ==
    /\ event # null /\ OtherExtension(event[1].filename)
    /\ \E t \in timers : t.due < DEBOUNCE_DELAY_MS

\* The event has no file name, no extension, or an extension of the allow-list.
Proceeds(filename) ==
    \/ filename = null
    \/ EventExtension(filename) = <<>>
    \/ EventExtension(filename) \in AllowList

CalledByTimer == refreshed # null /\ refreshed[1].by = "timer"

\* C13: the step of a change event without file name, without extension or
\* with an extension of the allow-list leaves exactly one timeout pending, due
\* in DEBOUNCE_DELAY_MS, with its handle in debounceTimer; and a pending timeout
\* leads to a refreshCache() call of the watcher unless a further such event
\* comes first.
C13_QualifyingEventArms ==
    /\ [][(event' # null /\ Proceeds(event'[1].filename)) =>
             /\ \E t \in timers' : /\ timers' = {t}
                                   /\ t.due = DEBOUNCE_DELAY_MS
                                   /\ debounceTimer' = Some(t.id)
             /\ refreshed' = null]_vars
    /\ (timers # {}) ~> (CalledByTimer \/ (event # null /\ Proceeds(event[1].filename)))

\* C13, witness: the timeout armed by an event for a video with an upper-case
\* extension has fired, no other event in its burst.
C13_FiredAfterOneEvent == CalledByTimer /\ burst = 1

\* C14: the step that sends the response of POST /api/refresh is the step of
\* its refreshCache() call; it leaves cachedTree as it was and concludes no
\* scan, and a scan it started is at its first readdir.
C14_PostAnswersAtOnce ==
    [][IsPost(response') =>
          /\ refreshed' # null /\ refreshed'[1].by = "post"
          /\ cachedTree' = cachedTree
          /\ concluded' = null
          /\ refreshed'[1].how = "started" =>
                /\ Len(scans') = Len(scans) + 1
                /\ scans'[Len(scans')].result = null
                /\ scans'[Len(scans')].readdir = {<<>>}]_vars

\* C14, witness: POST /api/refresh has answered in the step that started a
\* scan, the cache populated by an earlier one.
C14_AnsweredScanPending ==
    IsPost(response) /\ CalledBy("post", "started") /\ Len(scans) = 1 /\ cachedTree # null

\* C15: the step that sends the response of GET /api/files changes none of
\* cachedTree, isScanRunning, debounceTimer and the timeouts, neither starts nor
\* advances a scan, calls refreshCache() not and leaves the disk alone.
C15_GetFilesFrame ==
    [][IsGet(response') =>
          /\ cachedTree' = cachedTree
          /\ isScanRunning' = isScanRunning
          /\ debounceTimer' = debounceTimer
          /\ timers' = timers
          /\ scans' = scans
          /\ fs' = fs
          /\ refreshed' = null
          /\ concluded' = null]_vars

\* C15, witness: GET /api/files has answered 503 before the first scan
\* returned, that scan in its lookups.
C15_AnsweredNotReady == IsGet(response) /\ response[1].status = 503 /\ MidScan

\* C16: once fs.watch has thrown, the app.listen callback is done, the watcher
\* stays failed, no timeout is pending and no change event is handled; GET
\* /api/files answers as the cache says, and POST /api/refresh made when no
\* scan is in flight starts one.
C16_WatcherFailureDegrades ==
    [][watcher' = "failed" =>
          /\ pc' = "done"
          /\ timers' = {} /\ debounceTimer' = null /\ event' = null
          /\ watcher = "failed" \/ watcher = "none"
          /\ IsGet(response') => response'[1] = ApiFiles(cachedTree)
          /\ (returned # null /\ IsGet(response')) =>
                (response'[1].status = 200 /\ response'[1].body.tree = returned)
          /\ (IsPost(response') /\ scans = <<>>) =>
                (refreshed'[1].how = "started" /\ Len(scans') = 1)]_vars

\* C16, witness: fs.watch has thrown and a later POST /api/refresh has started
\* a scan, the cache populated.
C16_RefreshedWithoutWatcher ==
    watcher = "failed" /\ CalledBy("post", "started") /\ cachedTree # null

\* The trees the scanners have returned on the disk.
ScannedTrees == {t[1] : t \in {x \in {asyncTree, syncTree} : x # null}}

\* The nodes of a tree, at all depths.
RECURSIVE AllNodes(_)
AllNodes(tree) ==
    IF Len(tree) = 0 THEN {}
    ELSE {tree[1]}
         \cup (IF tree[1].type = "directory" THEN AllNodes(tree[1].children) ELSE {})
         \cup AllNodes(Tail(tree))

\* The nodes of a tree, each with the names of the nodes from the root to it.
RECURSIVE Chains(_, _)
Chains(tree, above) ==
    IF Len(tree) = 0 THEN {}
    ELSE LET chain == Append(above, tree[1].name)
         IN  {[chain |-> chain, node |-> tree[1]]}
             \cup (IF tree[1].type = "directory"
                   THEN Chains(tree[1].children, chain) ELSE {})
             \cup Chains(Tail(tree), above)

\* A node of the given type stands in the tree for entry p of the disk.
HasNode(tree, type, p) ==
    \E x \in Chains(tree, <<>>) : x.chain = p /\ x.node.type = type

\* Entry q lies below directory p.
IsBelow(q, p) == Len(q) > Len(p) /\ SubSeq(q, 1, Len(p)) = p

\* C17: in the tree either scanner returns, no directory node has an empty
\* children sequence, and a directory of the disk has a node if and only if an
\* entry below it has a file node.
C17_NoEmptyDirectory ==
    \A tree \in ScannedTrees :
        /\ \A n \in AllNodes(tree) : n.type = "directory" => Len(n.children) > 0
        /\ \A x \in Chains(tree, <<>>) :
              x.node.type = "directory" => x.chain \in WorldDirs
        /\ \A p \in WorldDirs :
              HasNode(tree, "directory", p) <=>
                  \E q \in WorldPaths : IsBelow(q, p) /\ HasNode(tree, "file", q)

\* C17, witness: both scanners have run on a disk where the nested directory
\* is empty and its parent holds a video: the parent has a node, the nested
\* directory none.
C17_NestedPruned ==
    /\ asyncTree # null /\ syncTree # null
    /\ <<AP, E>> \in disk.present /\ <<AP, E, V_MOV>> \notin disk.present
    /\ disk.failing = {}
    /\ HasNode(asyncTree[1], "directory", <<AP>>)
    /\ HasNode(syncTree[1], "directory", <<AP>>)

\* The names the scanners are to skip.
SkippedName(name) ==
    name[1] = "." \/ name = <<"n","o","d","e","_","m","o","d","u","l","e","s">>
                  \/ name = <<"w","e","b","_","v","i","e","w">>

\* The scanner gets to entry p: the entry and the directories above it are
\* present, none of their names is to be skipped, their stat succeeds, and the
\* readdir of ROOT_DIR and of every directory above p succeeds.
Reached(dk, p) ==
    /\ \A k \in 1..Len(p) :
          /\ SubSeq(p, 1, k) \in dk.present
          /\ ~SkippedName(p[k])
          /\ [op |-> "stat", path |-> SubSeq(p, 1, k)] \notin dk.failing
    /\ \A k \in 0..(Len(p) - 1) :
          [op |-> "readdir", path |-> SubSeq(p, 1, k)] \notin dk.failing

\* C18: for every entry of the disk that is no directory and that the scanner
\* gets to, the tree either scanner returns has a file node if and only if the
\* lower-cased extension of its name is .mp4, .mkv, .webm, .avi or .mov.
C18_VideoFilesEmitted ==
    \A tree \in ScannedTrees :
        \A p \in WorldPaths \ WorldDirs :
            Reached(disk, p) =>
                (HasNode(tree, "file", p) <=>
                    toLowerCase(extname(Last(p))) \in AllowList)

\* C18, witness: both scanners have run on a disk where they get to a video
\* with an upper-case extension, which has a node, and to a text file.
C18_UpperCaseEmitted ==
    /\ asyncTree # null /\ syncTree # null
    /\ Reached(disk, <<B_MKV>>) /\ Reached(disk, <<N_TXT>>)
    /\ HasNode(asyncTree[1], "file", <<B_MKV>>)
    /\ HasNode(syncTree[1], "file", <<B_MKV>>)

\* C19: in the tree either scanner returns, no node and no node above a node
\* has a name that starts with '.' or is node_modules or web_view, and every
\* node stands for an entry of the disk that is below no such entry.
C19_NothingExcluded ==
    \A tree \in ScannedTrees :
        \A x \in Chains(tree, <<>>) :
            /\ \A i \in 1..Len(x.chain) : ~SkippedName(x.chain[i])
            /\ x.chain \in WorldPaths

\* C19, witness: both scanners have run on a disk that holds a hidden video
\* and videos in node_modules and in web_view, every lookup succeeding, and
\* have returned two directories and two files at the root.
C19_ExcludedHoldVideos ==
    /\ asyncTree # null /\ syncTree # null
    /\ disk.present = WorldPaths /\ disk.failing = {}
    /\ Len(asyncTree[1]) = 4 /\ Len(syncTree[1]) = 4
    /\ countFiles(asyncTree[1]) = 6

\* The children sequences of a tree, its root sequence included.
ChildSeqs(tree) ==
    {tree} \cup {n.children : n \in {m \in AllNodes(tree) : m.type = "directory"}}

\* C20: in every children sequence of the tree either scanner returns, no
\* file node comes before a directory node, and of two nodes of one type the
\* earlier one has the name localeCompare puts first.
C20_DirectoriesFirstByName ==
    \A tree \in ScannedTrees :
        \A seq \in ChildSeqs(tree) :
            \A i, j \in 1..Len(seq) :
                i < j =>
                    IF seq[i].type = seq[j].type
                    THEN localeCompare(seq[i].name, seq[j].name) <= 0
                    ELSE seq[i].type = "directory"

\* C20, witness: both scanners have run on a disk whose listings come in
\* reverse order and have returned ap, Q, b.MKV, Z.mp4 at the root.
C20_SortedFromReverse ==
    /\ asyncTree # null /\ syncTree # null
    /\ disk.reversed
    /\ [i \in 1..Len(asyncTree[1]) |-> asyncTree[1][i].name] = <<AP, Q, B_MKV, Z_MP4>>
    /\ [i \in 1..Len(syncTree[1]) |-> syncTree[1][i].name] = <<AP, Q, B_MKV, Z_MP4>>

\* The disk without lookup f failing and without the entries below path p.
Emptied(dk, f, p) ==
    [dk EXCEPT !.failing = @ \ {f},
               !.present = {q \in @ : ~IsBelow(q, p)}]

\* C21: either scanner returns a tree whatever listing fails, the empty tree
\* when it is the listing of ROOT_DIR; and the tree is the one the scanner
\* returns on the disk where the directory lists and is empty.
C21_ListingFailureIsEmpty ==
    \A f \in (IF disk = null THEN {} ELSE disk.failing) :
        f.op = "readdir" =>
            /\ asyncTree # null =>
                  /\ asyncTree[1] = scanDirectoryAsync(Emptied(disk, f, f.path), <<>>)
                  /\ f.path = <<>> => asyncTree[1] = <<>>
            /\ syncTree # null =>
                  /\ syncTree[1] = scanDirectory(Emptied(disk, f, f.path), <<>>)
                  /\ f.path = <<>> => syncTree[1] = <<>>

\* C21, witness: both scanners have run on a disk where the listing of ap
\* fails and every entry is present: ap has no node, and Q, listed after it,
\* and the two videos of the root have theirs.
C21_SiblingsScanned ==
    /\ asyncTree # null /\ syncTree # null
    /\ disk.failing = {[op |-> "readdir", path |-> <<AP>>]}
    /\ disk.present = WorldPaths /\ ~disk.reversed
    /\ Len(asyncTree[1]) = 3 /\ Len(syncTree[1]) = 3
    /\ asyncTree[1][1].name = Q /\ syncTree[1][1].name = Q

\* The disk without lookup f failing, without entry p and the entries below it.
Removed(dk, f, p) ==
    [dk EXCEPT !.failing = @ \ {f},
               !.present = {q \in @ : q # p /\ ~IsBelow(q, p)}]

\* C22: when the stat of an entry fails, either scanner returns the tree it
\* returns on the disk without that entry.
C22_StatFailureSkipsEntry ==
    \A f \in (IF disk = null THEN {} ELSE disk.failing) :
        f.op = "stat" =>
            /\ asyncTree # null =>
                  asyncTree[1] = scanDirectoryAsync(Removed(disk, f, f.path), <<>>)
            /\ syncTree # null =>
                  syncTree[1] = scanDirectory(Removed(disk, f, f.path), <<>>)

\* C22, witness: both scanners have run on a disk where the stat of b.MKV
\* fails and every entry is present: b.MKV has no node, and Z.mp4, Q and ap,
\* listed before and after it, have theirs.
C22_SiblingsStatted ==
    /\ asyncTree # null /\ syncTree # null
    /\ disk.failing = {[op |-> "stat", path |-> <<B_MKV>>]}
    /\ disk.present = WorldPaths
    /\ ~HasNode(asyncTree[1], "file", <<B_MKV>>)
    /\ Len(asyncTree[1]) = 3 /\ Len(syncTree[1]) = 3

\* C23: on a disk that does not change, a scan returns the tree the scan
\* before it returned, whatever the orders in which the lookups of the two
\* scans completed.
C23_RescanIsIdentical ==
    (EndedBy("ok") /\ concluded[1].before # null) =>
        concluded[1].result = concluded[1].before

\* C23, witness: a second scan has returned a tree with a directory node and a
\* file node at the root, whose lookups complete in more than one order.
C23_RescannedTwoBranches ==
    /\ EndedBy("ok") /\ concluded[1].before # null
    /\ Len(concluded[1].result[1]) = 2

\* C24: in the tree either scanner returns, the relativePath of a node of the
\* root sequence is its name, and the relativePath of a child is its parent's
\* relativePath, '/' and the child's name.
C24_RelativePathJoinsNames ==
    \A tree \in ScannedTrees :
        /\ \A i \in 1..Len(tree) : tree[i].relativePath = tree[i].name
        /\ \A n \in AllNodes(tree) :
              n.type = "directory" =>
                  \A i \in 1..Len(n.children) :
                      n.children[i].relativePath =
                          n.relativePath \o <<"/">> \o n.children[i].name

\* C30: on every disk, whatever is absent, whatever lookup fails and in
\* whatever order the listings come, scanDirectoryAsync(ROOT_DIR) and
\* scanDirectory(ROOT_DIR) return the same tree.
C30_AsyncEqualsSync ==
    (asyncTree # null /\ syncTree # null) => asyncTree = syncTree

\* C30, witness: both scanners have run on a disk where a lookup fails and
\* the listings come in reverse order, and have returned directories and
\* files, a nested directory among them.
C30_BothScannedWithFailure ==
    /\ asyncTree # null /\ syncTree # null
    /\ disk.failing # {} /\ disk.reversed
    /\ HasNode(asyncTree[1], "directory", <<AP, E>>)
    /\ HasNode(syncTree[1], "file", <<Z_MP4>>)

\* C25: a step changes cachedTree only if it concludes a scan that returned,
\* and then to the tree of that scan; the step of a skipped refreshCache() call
\* and the step that concludes a scan that threw leave it as it was.  So
\* cachedTree is assigned once for each scan that returned and never else.
C25_OneAssignmentPerReturn ==
    [][/\ cachedTree' # cachedTree =>
             (concluded' # null /\ concluded'[1].how = "ok")
       /\ (concluded' # null /\ concluded'[1].how = "ok") =>
             (cachedTree' = concluded'[1].result /\ Len(scans') = Len(scans) - 1)
       /\ (concluded' # null /\ concluded'[1].how = "throw") =>
             cachedTree' = cachedTree
       /\ (refreshed' # null /\ refreshed'[1].how = "skipped") =>
             cachedTree' = cachedTree]_vars

\* C25, witness: a scan has returned and replaced the tree of an earlier scan
\* by another tree.
C25_Replaced ==
    /\ EndedBy("ok") /\ concluded[1].before # null
    /\ cachedTree # concluded[1].before
    /\ cachedTree = concluded[1].result

\* The last step handled a change event that (re)armed the debounce timeout.
Armed == event # null /\ Proceeds(event[1].filename)

\* C26: if the qualifying change events come to an end and every scan
\* concludes (the readdir and stat calls return), each qualifying change event
\* is followed by a refreshCache() call that starts a scan, and that scan by
\* its conclusion.
C26_EventLeadsToScan ==
    (<>[]~Armed /\ []<>(scans = <<>>)) =>
        (Armed ~> (refreshed # null /\ refreshed[1].how = "started"
                     /\ <>(concluded # null)))

\* C27: until the app.listen callback is past its await the watcher is not
\* subscribed, no timeout is pending, no change event is handled and the
\* debounce timeout calls refreshCache() not; setupWatcher() runs in the step
\* that concludes the initial scan, and that step leaves no timeout pending
\* and no scan in flight.
C27_WatcherAfterInitialScan ==
    [][/\ pc' # "done" =>
             /\ watcher' = "none"
             /\ timers' = {} /\ debounceTimer' = null
             /\ event' = null
             /\ ~(refreshed' # null /\ refreshed'[1].by = "timer")
       /\ (watcher = "none" /\ watcher' # "none") =>
             /\ pc = "await" /\ pc' = "done"
             /\ concluded' # null /\ concluded'[1].before = null
             /\ timers' = {} /\ scans' = <<>>]_vars

\* C27, witness: the initial scan has returned an empty tree, the listing of
\* ROOT_DIR succeeding, while a.mp4 is on the disk; the watcher is subscribed
\* by that step, and no timeout is pending.
C27_ChangeMissedAtStartup ==
    /\ EndedBy("ok") /\ concluded[1].before = null /\ ~concluded[1].rootFailed
    /\ concluded[1].result = Some(<<>>)
    /\ <<A_MP4>> \in fs
    /\ watcher = "active" /\ timers = {} /\ scans = <<>>

\* C28: the step that concludes a scan that listed ROOT_DIR and returned no
\* node leaves cachedTree the empty sequence, not null, and GET /api/files
\* answers 200 with the empty sequence when cachedTree is that.
C28_EmptyResultPopulates ==
    /\ (EndedBy("ok") /\ ~concluded[1].rootFailed /\ concluded[1].result = Some(<<>>)) =>
          /\ cachedTree = Some(<<>>) /\ cachedTree # null
          /\ ApiFiles(cachedTree).status = 200
          /\ ApiFiles(cachedTree).body.tree = Some(<<>>)
    /\ (IsGet(response) /\ cachedTree = Some(<<>>)) =>
          /\ response[1].status = 200
          /\ response[1].body.tree = Some(<<>>)
          /\ ~response[1].body.loading

\* C28, witness: GET /api/files has answered 200 with the empty sequence, the
\* disk empty.
C28_ServedEmpty ==
    /\ IsGet(response) /\ response[1].status = 200
    /\ response[1].body.tree = Some(<<>>)
    /\ fs = {}

\* C29: the response of POST /api/refresh is the same 200 acknowledgment
\* whether its refreshCache() call started a scan or was skipped.
C29_SameAcknowledgment ==
    IsPost(response) =>
        /\ response[1].status = 200
        /\ response[1].body = [loading |-> FALSE, tree |-> null]
        /\ refreshed # null /\ refreshed[1].how \in {"started", "skipped"}

\* C29, witness: POST /api/refresh has been answered while a scan was at its
\* lookups, its refreshCache() call skipped.
C29_AcknowledgedSkipped ==
    IsPost(response) /\ CalledBy("post", "skipped") /\ MidScan

\* The sum of f[i] over the indices i in S.
RECURSIVE SumOver(_, _)
SumOver(f, S) ==
    IF S = {} THEN 0
    ELSE LET i == CHOOSE j \in S : TRUE
         IN  f[i] + SumOver(f, S \ {i})

\* The indices of the nodes of the given type in a sequence of nodes.
IndicesOf(seq, type) == {i \in DOMAIN seq : seq[i].type = type}

\* C33: countFiles returns 0 for the empty sequence; for the tree a scanner
\* returns it is the number of file nodes at all depths of the tree; and for
\* every children sequence of that tree it is the number of file nodes of the
\* sequence plus the sum of countFiles over the children of its directory
\* nodes.
C33_CountFilesCountsFileNodes ==
    /\ countFiles(<<>>) = 0
    /\ \A tree \in ScannedTrees :
          /\ countFiles(tree) =
                 Cardinality({x \in Chains(tree, <<>>) : x.node.type = "file"})
          /\ \A seq \in ChildSeqs(tree) :
                countFiles(seq) =
                    Cardinality(IndicesOf(seq, "file"))
                    + SumOver([i \in DOMAIN seq |-> countFiles(seq[i].children)],
                              IndicesOf(seq, "directory"))

\* C33, witness: the synchronous scanner has returned a tree with file nodes
\* at three depths, one of them two directories below the root, and
\* countFiles of it is 6.
C33_CountedThreeDepths ==
    /\ syncTree # null
    /\ IndicesOf(syncTree[1], "file") # {}
    /\ \E x \in Chains(syncTree[1], <<>>) : x.node.type = "file" /\ Len(x.chain) = 3
    /\ countFiles(syncTree[1]) = 6

\* A retry of fetchFiles is pending, or a request of it is in flight.
Polling ==
    \/ \E t \in clientTimers : t.callback = "fetchFiles"
    \/ \E i \in DOMAIN http : http[i].route = "GET /api/files"

\* The element file-tree shows what renderTree makes of the cached tree.
ShowsCache == cachedTree # null /\ treeContainer = renderTree(cachedTree[1])

\* C31: a fetchFiles call that receives 503 shows the spinner, no tree, and
\* adds exactly one timeout to the pending ones, a call of fetchFiles 3000 ms
\* later; a call that receives another response renders its tree and adds no
\* timeout; and if requests come to fail no more, then once the page is loaded
\* and the server cache populated, the page comes to show the cached tree
\* with no retry pending and no request in flight, again and again, and from
\* some time on no retry is pending.
C31_PollsUntilReady ==
    /\ [][\A i \in DOMAIN http :
            FetchFilesResumes(i) =>
                IF http[i].reply[1].status = 503
                THEN /\ treeContainer'.shows = "spinner"
                     /\ treeContainer'.items = <<>>
                     /\ clientTimers \subseteq clientTimers'
                     /\ Cardinality(clientTimers' \ clientTimers) = 1
                     /\ \A t \in clientTimers' \ clientTimers :
                           t.callback = "fetchFiles" /\ t.delay = 3000
                ELSE /\ http[i].reply[1].status = 200
                     /\ treeContainer' = renderTree(http[i].reply[1].body.tree[1])
                     /\ clientTimers' = clientTimers]_vars
    /\ (<>[][~\E i \in DOMAIN http : FetchFilesCatches(i)]_vars) =>
          /\ (loaded /\ cachedTree # null) ~> (ShowsCache /\ ~Polling)
          /\ (loaded /\ cachedTree # null) ~>
                 [](~\E t \in clientTimers : t.callback = "fetchFiles")

\* C31, witness: the page shows the spinner and a retry of 3000 ms is pending, a
\* 503 received, while the server cache is populated.
C31_RetryPendingCacheReady ==
    /\ treeContainer = Spinner
    /\ \E t \in clientTimers : t.callback = "fetchFiles" /\ t.delay = RetryDelayMs
    /\ cachedTree # null
    /\ http = <<>>

\* A refresh is under way in the page: its POST is in flight, its reload is
\* pending, or the request of its reload is in flight.
Refreshing ==
    \/ \E i \in DOMAIN http :
          http[i].route = "POST /api/refresh" \/ http[i].caller = "reload"
    \/ \E t \in clientTimers : t.callback = "reload"

\* The steps of a refresh in the page: a click disables the button and sends
\* POST /api/refresh; the acknowledgment adds exactly one timeout, the reload
\* 2500 ms later; the reload renders the tree of its response and enables the
\* button.
RefreshSteps ==
    [][/\ Click =>
             /\ btnDisabled'
             /\ http' = Append(http, [route |-> "POST /api/refresh",
                                      caller |-> "click", reply |-> null])
       /\ \A i \in DOMAIN http :
             HandleRefreshResumes(i) =>
                 /\ clientTimers \subseteq clientTimers'
                 /\ Cardinality(clientTimers' \ clientTimers) = 1
                 /\ \A t \in clientTimers' \ clientTimers :
                       t.callback = "reload" /\ t.delay = 2500
       /\ \A i \in DOMAIN http :
             (FetchFilesResumes(i) /\ http[i].caller = "reload"
                  /\ http[i].reply[1].status = 200) =>
                 /\ treeContainer' = renderTree(http[i].reply[1].body.tree[1])
                 /\ ~btnDisabled']_vars

\* The button is disabled while a refresh is under way, and once the server
\* listens a disabled button is enabled again.
ButtonHeld ==
    /\ [](Refreshing => btnDisabled)
    /\ (btnDisabled /\ pc # "listen") ~> ~btnDisabled

\* The server answers the request of a reload with the tree of a scan that
\* has concluded, no scan in flight: the re-scan the click asked for is over.
ReloadAfterRescan ==
    [][\A i \in DOMAIN http :
          (FilesServed(i) /\ http[i].caller = "reload") =>
              /\ ~isScanRunning
              /\ response'[1].status = 200
              /\ response'[1].body.tree = returned]_vars

\* C32: after a click on the refresh button the page sends POST /api/refresh
\* and reloads the tree 2500 ms after the acknowledgment; the tree the reload
\* is answered with, which it renders, is the result of the re-scan the click
\* asked for; the button is disabled meanwhile and enabled again on every
\* path.
C32_ReloadShowsRescan ==
    /\ RefreshSteps
    /\ ReloadAfterRescan
    /\ ButtonHeld

====
